---- MODULE Spec2Model ----
(***************************************************************************)
(* Model of the packet builder CreateEtchPacket                            *)
(* (belfry_python_anvil/api_resources/mutations/create_etch_packet.py).    *)
(*                                                                         *)
(* Python objects live on a heap: the builder's three collections          *)
(* (self.signers, self.files, self.file_payloads) are references into      *)
(* `heap`, so that sharing between the builder and a returned payload is   *)
(* something the model can express.  Optional values are sequences of      *)
(* length at most one: None is <<>> and a present value v is <<v>>.        *)
(***************************************************************************)
EXTENDS Integers, Sequences, FiniteSets, TLC

VARIABLES
    self,      \* the builder object: NoBuilder, or a record of its attributes
    heap,      \* heap of collection objects: sequence indexed by reference
    last,      \* the last call: operation, argument, error raised, value returned, state before
    prevMat,   \* outcome of the call before the last one, when both were create_payload
    issued,    \* payloads built by create_payload, each with its contents when returned
    fills,     \* fill data of the most recent successful add_file_payloads, per file id
    ctor,      \* the arguments the builder was constructed with
    uid,       \* number of identifiers create_unique_id has handed out
    defaulted, \* TRUE while the builder started without signers and no add_signer carried a routing order
    threads,   \* per thread: Idle, or the signer and number of an add_signer call that has not appended yet
    race       \* whether add_signer calls have overlapped, and the positions of the signers given a default

vars == <<self, heap, last, prevMat, issued, fills, uid, ctor, defaulted, threads, race>>

----------------------------------------------------------------------------
(* Bounds *)

MaxItems == 2    \* signers and attachments added and payloads built after construction

----------------------------------------------------------------------------
(* Python values *)

None == <<>>
Some(x) == <<x>>

\* Python truthiness of Optional[int] and Optional[str]: None, 0 and "" are falsy
FalsyInt(x) == x = None \/ x = Some(0)
FalsyStr(x) == x = None \/ x = Some("")

\* max() of a non-empty list of integers
RECURSIVE max(_)
max(s) == IF Len(s) = 1 THEN s[1]
          ELSE LET m == max(Tail(s)) IN IF s[1] >= m THEN s[1] ELSE m

\* list comprehension [f(x) for x in s]
Range(s) == {s[i] : i \in DOMAIN s}

NoBuilder == [exists |-> FALSE]

NoError == "none"
TypeError == "TypeError"
ValueError == "ValueError"
AttributeError == "AttributeError"

\* result of a call: the builder and heap after it, the value returned, the error raised
Result(s, h, ret, err) == [self |-> s, heap |-> h, ret |-> ret, err |-> err]

\* the same, with the object that was passed to the call as it is afterwards
ResultArg(s, h, ret, err, arg) == [self |-> s, heap |-> h, ret |-> ret, err |-> err, arg |-> arg]

----------------------------------------------------------------------------
(* Inputs *)

Names == {None, Some(""), Some("pkt")}
SuppliedPayloads == {None, Some([kind |-> "supplied", tag |-> "P1"])}
FileIds == {"a", "b"}
FillData == {"d1", "d2"}

\* signers a caller passes
EtchSigners == {[id |-> None, routing_order |-> None, signer_type |-> "email"],
                [id |-> Some(""), routing_order |-> Some(2), signer_type |-> "email"],
                [id |-> None, routing_order |-> None, signer_type |-> "sms"],
                [id |-> None, routing_order |-> Some(0), signer_type |-> "email"],
                [id |-> Some("s1"), routing_order |-> Some(-1), signer_type |-> "email"],
                [id |-> Some("s1"), routing_order |-> Some(2), signer_type |-> "embedded"]}
\* as an EtchSigner, as a mapping, or a value of another type
SignerArgs == [form : {"EtchSigner"}, fields : EtchSigners]
                  \cup [form : {"dict"}, fields : {s \in EtchSigners : s.signer_type = "email" /\ s.routing_order = None}]
                  \cup {[form |-> "other", fields |-> None]}

\* attachments a caller passes.  kind: a DocumentUpload whose file is a byte
\* stream (BufferedIOBase), a DocumentUpload whose file is a Base64Upload, or
\* a reference to a template (not a DocumentUpload).  filename: the name of
\* the stream as <<stem, extension>>, None for a stream without name.
PdfName == Some(<<"report", "pdf">>)
Files == {[id |-> "a", kind |-> "stream", filename |-> PdfName, content_type |-> None],
          [id |-> "b", kind |-> "stream", filename |-> Some(<<"notes", "zzz">>), content_type |-> None],
          [id |-> "a", kind |-> "stream", filename |-> PdfName, content_type |-> Some("text/plain")],
          [id |-> "b", kind |-> "stream", filename |-> None, content_type |-> None],
          [id |-> "b", kind |-> "base64", filename |-> PdfName, content_type |-> Some("application/pdf")]}

\* collections a caller hands to the constructor
CtorSigners == {<<>>,
                <<[id |-> Some("s0"), routing_order |-> None, signer_type |-> "email"]>>,
                <<[id |-> Some("s0"), routing_order |-> Some(2), signer_type |-> "sms"]>>}
CtorFiles == {<<>>, <<[id |-> "a", kind |-> "stream", filename |-> PdfName,
                      content_type |-> Some("application/pdf")]>>}
EmptyDict == [k \in {} |-> "d1"]
CtorFilePayloads == {EmptyDict, [k \in {"b"} |-> "d1"]}
CtorFlags == {[is_draft |-> FALSE, is_test |-> TRUE], [is_draft |-> TRUE, is_test |-> FALSE]}

DefaultFlags == [is_draft |-> FALSE, is_test |-> TRUE]

\* constructor calls: every name with every payload; one collection or the
\* flags are varied for the named builder without payload, the fill-payload
\* map for the unnamed builder with payload
CtorArgs == {a \in [name : Names, payload : SuppliedPayloads, signers : CtorSigners,
                    files : CtorFiles, file_payloads : CtorFilePayloads, flags : CtorFlags] :
                /\ (a.payload # None \/ a.name # Some("pkt") \/ a.flags # DefaultFlags) =>
                       a.signers = <<>> /\ a.files = <<>>
                /\ (a.name = Some("") \/ a.flags # DefaultFlags) => a.file_payloads = EmptyDict
                /\ (a.payload # None /\ a.name # None) => a.file_payloads = EmptyDict
                /\ a.signers # <<>> => a.files = <<>> /\ a.file_payloads = EmptyDict
                /\ a.payload # None => a.flags = DefaultFlags}

\* mappings a caller hands to create_from_dict: the keyword arguments of the
\* constructor (extra: a key that is no parameter of the constructor), and
\* under "signers" and "files" lists of mappings or of other values
DefaultSigner == [id |-> None, routing_order |-> None, signer_type |-> "email"]
Kwargs(name, extra) == [name |-> name, payload |-> None, file_payloads |-> EmptyDict,
                        flags |-> DefaultFlags, extra |-> extra]
Entry(fields) == [form |-> "dict", fields |-> fields]
OtherEntry == [form |-> "other", fields |-> None]
ImportPayloads ==
    {[kwargs |-> Kwargs(Some("pkt"), FALSE), signers |-> None, files |-> None],
     [kwargs |-> Kwargs(Some("pkt"), FALSE),
      signers |-> Some(<<Entry(DefaultSigner), Entry(DefaultSigner)>>),
      files |-> Some(<<Entry([id |-> "a", kind |-> "stream", filename |-> PdfName,
                              content_type |-> None])>>)],
     [kwargs |-> Kwargs(Some("pkt"), FALSE),
      signers |-> Some(<<Entry([id |-> Some("s1"), routing_order |-> Some(2),
                                signer_type |-> "embedded"]),
                         Entry(DefaultSigner)>>),
      files |-> None],
     [kwargs |-> Kwargs(Some("pkt"), FALSE),
      signers |-> Some(<<Entry(DefaultSigner),
                         Entry([id |-> None, routing_order |-> None, signer_type |-> "sms"])>>),
      files |-> None],
     [kwargs |-> Kwargs(None, FALSE), signers |-> Some(<<Entry(DefaultSigner)>>), files |-> None],
     [kwargs |-> Kwargs(Some("pkt"), TRUE), signers |-> None, files |-> None],
     [kwargs |-> Kwargs(Some("pkt"), FALSE), signers |-> Some(<<OtherEntry>>), files |-> None],
     [kwargs |-> Kwargs(Some("pkt"), FALSE), signers |-> None,
      files |-> Some(<<Entry([id |-> "b", kind |-> "stream", filename |-> None,
                              content_type |-> None])>>)]}

----------------------------------------------------------------------------
(* Collaborators outside the builder file *)

\* DocumentUpload(**file): an attachment object with the fields of the mapping
DocumentUpload(d) == [id |-> d.id, kind |-> d.kind, filename |-> d.filename,
                      content_type |-> d.content_type]

\* EtchSigner(**signer): a signer object with the fields of the mapping
EtchSigner(d) == [id |-> d.id, routing_order |-> d.routing_order, signer_type |-> d.signer_type]

\* create_unique_id("signer"): the prefix followed by a suffix that no earlier
\* identifier carries
create_unique_id(prefix, suffix) == Some(prefix \o ToString(suffix))

\* variant: the payload refers to the collections it is given
CreateEtchPacketPayload_sharing(h, is_test, is_draft, name, signers, files, payloads) ==
    [heap |-> h,
     ret |-> [kind |-> "built", name |-> name, is_test |-> is_test,
              is_draft |-> is_draft,
              signers |-> signers, files |-> files, data |-> payloads]]

\* CreateEtchFilePayload(payloads=...) / CreateEtchPacketPayload(...): the
\* payload owns fresh copies of the signer list, the attachment list and the
\* fill-payload map it is given.
CreateEtchPacketPayload(h, is_test, is_draft, name, signers, files, payloads) ==
    LET h2 == h \o <<h[signers], h[files], h[payloads]>>
    IN  [heap |-> h2,
         ret |-> [kind |-> "built", name |-> name, is_test |-> is_test,
                  is_draft |-> is_draft,
                  signers |-> Len(h) + 1, files |-> Len(h) + 2, data |-> Len(h) + 3]]

\* the contents of a payload, by value
View(h, p) ==
    IF p.kind = "supplied" THEN p
    ELSE [kind |-> "built", name |-> p.name, is_test |-> p.is_test, is_draft |-> p.is_draft,
          signers |-> h[p.signers], files |-> h[p.files], data |-> h[p.data]]

----------------------------------------------------------------------------
(* CreateEtchPacket *)

\* variant: name is required whether or not a payload is present
__init___name_required(a) ==
    IF a.payload = None \/ FalsyStr(a.name)
    THEN Result(NoBuilder, <<>>, None, TypeError)
    ELSE Result([exists |-> TRUE,
                 name |-> a.name,
                 signers |-> 1,
                 files |-> 2,
                 file_payloads |-> 3,
                 is_draft |-> a.flags.is_draft,
                 is_test |-> a.flags.is_test,
                 payload |-> a.payload],
                <<a.signers, a.files, a.file_payloads>>, None, NoError)

\* __init__: name is required when payload is not present
__init__(a) ==
    IF a.payload = None /\ FalsyStr(a.name)
    THEN Result(NoBuilder, <<>>, None, TypeError)
    ELSE Result([exists |-> TRUE,
                 name |-> a.name,
                 signers |-> 1,
                 files |-> 2,
                 file_payloads |-> 3,
                 is_draft |-> a.flags.is_draft,
                 is_test |-> a.flags.is_test,
                 payload |-> a.payload],
                <<a.signers, a.files, a.file_payloads>>, None, NoError)

\* variant: the signer_type check lets every type through
signer_type_unchecked(data) == data.signer_type \in {"embedded", "email", "sms"}

\* add_signer: the signer_type check
signer_type_ok(data) == data.signer_type \in {"embedded", "email"}

\* variant: the next routing order is the number of signers in the list
next_routing_order_count(signers) == IF signers # <<>> THEN Len(signers) ELSE 1

\* variant: the next routing order follows that of the last signer of the list
next_routing_order_after_last(signers) ==
    IF signers # <<>>
    THEN LET s == signers[Len(signers)]
         IN  (IF FalsyInt(s.routing_order) THEN 0 ELSE s.routing_order[1]) + 1
    ELSE 1

\* variant: the next routing order is the greatest one in the list
next_routing_order_max(signers) ==
    IF signers # <<>>
    THEN LET all_signers == [i \in DOMAIN signers |->
                                IF FalsyInt(signers[i].routing_order) THEN 0
                                ELSE signers[i].routing_order[1]]
         IN  max(all_signers)
    ELSE 1

\* add_signer: the next routing order after those of the signers in the list
next_routing_order(signers) ==
    IF signers # <<>>
    THEN LET all_signers == [i \in DOMAIN signers |->
                                IF FalsyInt(signers[i].routing_order) THEN 0
                                ELSE signers[i].routing_order[1]]
         IN  max(all_signers) + 1
    ELSE 1

\* variant: id and routing order are assigned before the signer_type check
add_signer_assign_first(s, h, signer, suffix) ==
    IF signer.form = "other"
    THEN ResultArg(s, h, None, ValueError, signer.fields)
    ELSE
    LET data == IF signer.form = "dict" THEN EtchSigner(signer.fields) ELSE signer.fields
        id == IF FalsyStr(data.id) THEN create_unique_id("signer", suffix) ELSE data.id
        ro == IF FalsyInt(data.routing_order)
              THEN Some(next_routing_order(h[s.signers]))
              ELSE data.routing_order
        d2 == [data EXCEPT !.id = id, !.routing_order = ro]
        passed == IF signer.form = "dict" THEN signer.fields ELSE d2
    IN  IF ~signer_type_ok(data)
        THEN ResultArg(s, h, None, ValueError, passed)
        ELSE ResultArg(s, [h EXCEPT ![s.signers] = Append(@, d2)], None, NoError, passed)

\* variant: every signer is given a new id
add_signer_fresh_id(s, h, signer, suffix) ==
    IF signer.form = "other"
    THEN ResultArg(s, h, None, ValueError, signer.fields)
    ELSE
    LET data == IF signer.form = "dict" THEN EtchSigner(signer.fields) ELSE signer.fields
    IN  IF ~signer_type_ok(data)
        THEN ResultArg(s, h, None, ValueError, signer.fields)
        ELSE
        LET id == create_unique_id("signer", suffix)
            ro == IF FalsyInt(data.routing_order)
                  THEN Some(next_routing_order(h[s.signers]))
                  ELSE data.routing_order
            d2 == [data EXCEPT !.id = id, !.routing_order = ro]
            passed == IF signer.form = "dict" THEN signer.fields ELSE d2
        IN  ResultArg(s, [h EXCEPT ![s.signers] = Append(@, d2)], None, NoError, passed)

\* add_signer.  A mapping is converted to a new EtchSigner and stays as it
\* is; an EtchSigner is the object that is assigned to and appended.
add_signer(s, h, signer, suffix) ==
    IF signer.form = "other"
    THEN ResultArg(s, h, None, ValueError, signer.fields)
    ELSE
    LET data == IF signer.form = "dict" THEN EtchSigner(signer.fields) ELSE signer.fields
    IN  IF ~signer_type_ok(data)
        THEN ResultArg(s, h, None, ValueError, signer.fields)
        ELSE
        LET id == IF FalsyStr(data.id) THEN create_unique_id("signer", suffix) ELSE data.id
            ro == IF FalsyInt(data.routing_order)
                  THEN Some(next_routing_order(h[s.signers]))
                  ELSE data.routing_order
            d2 == [data EXCEPT !.id = id, !.routing_order = ro]
            passed == IF signer.form = "dict" THEN signer.fields ELSE d2
        IN  ResultArg(s, [h EXCEPT ![s.signers] = Append(@, d2)], None, NoError, passed)

\* mimetypes.guess_type: the type of the extension, None for an unknown one
types_map == [pdf |-> "application/pdf", png |-> "image/png"]
guess_type(name) == IF name[2] \in DOMAIN types_map THEN Some(types_map[name[2]]) ELSE None

\* add_file: a byte stream without content type gets the type guessed from
\* its name (reading the name of a stream that has none raises
\* AttributeError); the attachment is appended to self.files
add_file(s, h, file) ==
    IF file.kind = "stream" /\ file.content_type = None
    THEN IF file.filename = None
         THEN Result(s, h, None, AttributeError)
         ELSE LET f2 == [file EXCEPT !.content_type = guess_type(file.filename[1])]
              IN  Result(s, [h EXCEPT ![s.files] = Append(@, f2)], None, NoError)
    ELSE Result(s, [h EXCEPT ![s.files] = Append(@, file)], None, NoError)

\* [f.id for f in self.files if f]
existing_files(s, h) == {f.id : f \in Range(h[s.files])}

\* variant: the fill payload is stored without looking at the attachments
add_file_payloads_unchecked(s, h, file_id, fill_payload) ==
    LET fp == h[s.file_payloads]
        fp2 == [k \in DOMAIN fp \cup {file_id} |->
                   IF k = file_id THEN fill_payload ELSE fp[k]]
    IN  Result(s, [h EXCEPT ![s.file_payloads] = fp2], None, NoError)

\* variant: the fill payload is stored only for an id that has none yet
add_file_payloads_setdefault(s, h, file_id, fill_payload) ==
    IF file_id \notin existing_files(s, h)
    THEN Result(s, h, None, ValueError)
    ELSE LET fp == h[s.file_payloads]
             fp2 == [k \in DOMAIN fp \cup {file_id} |->
                        IF k \in DOMAIN fp THEN fp[k] ELSE fill_payload]
         IN  Result(s, [h EXCEPT ![s.file_payloads] = fp2], None, NoError)

\* variant: the fill payload is stored before the id is looked up
add_file_payloads_late_check(s, h, file_id, fill_payload) ==
    LET fp == h[s.file_payloads]
        fp2 == [k \in DOMAIN fp \cup {file_id} |->
                   IF k = file_id THEN fill_payload ELSE fp[k]]
    IN  Result(s, [h EXCEPT ![s.file_payloads] = fp2], None,
               IF file_id \notin existing_files(s, h) THEN ValueError ELSE NoError)

\* add_file_payloads
add_file_payloads(s, h, file_id, fill_payload) ==
    IF file_id \notin existing_files(s, h)
    THEN Result(s, h, None, ValueError)
    ELSE LET fp == h[s.file_payloads]
             fp2 == [k \in DOMAIN fp \cup {file_id} |->
                        IF k = file_id THEN fill_payload ELSE fp[k]]
         IN  Result(s, [h EXCEPT ![s.file_payloads] = fp2], None, NoError)

\* variant: the fill payloads are returned without looking at the attachments
get_file_payloads_unchecked(s, h) == Result(s, h, Some(s.file_payloads), NoError)

\* get_file_payloads: returns the reference self.file_payloads
get_file_payloads(s, h) ==
    IF \E key \in DOMAIN h[s.file_payloads] : key \notin existing_files(s, h)
    THEN Result(s, h, None, ValueError)
    ELSE Result(s, h, Some(s.file_payloads), NoError)

\* variant: the fill payloads are resolved before the name is looked at
create_payload_resolve_first(s, h) ==
    IF s.payload # None
    THEN Result(s, h, s.payload, NoError)
    ELSE LET fp == get_file_payloads(s, h)
         IN  IF fp.err # NoError
             THEN Result(fp.self, fp.heap, None, fp.err)
             ELSE IF FalsyStr(s.name)
             THEN Result(s, h, None, TypeError)
             ELSE LET p == CreateEtchPacketPayload(fp.heap, fp.self.is_test, fp.self.is_draft,
                                                   fp.self.name, fp.self.signers,
                                                   fp.self.files, fp.ret[1])
                  IN  Result(fp.self, p.heap, Some(p.ret), NoError)

\* variant: the name is looked at before the supplied payload
create_payload_name_first(s, h) ==
    IF FalsyStr(s.name)
    THEN Result(s, h, None, TypeError)
    ELSE IF s.payload # None
    THEN Result(s, h, s.payload, NoError)
    ELSE LET fp == get_file_payloads(s, h)
         IN  IF fp.err # NoError
             THEN Result(fp.self, fp.heap, None, fp.err)
             ELSE LET p == CreateEtchPacketPayload(fp.heap, fp.self.is_test, fp.self.is_draft,
                                                   fp.self.name, fp.self.signers,
                                                   fp.self.files, fp.ret[1])
                  IN  Result(fp.self, p.heap, Some(p.ret), NoError)

\* variant: the payload takes the signers and the builder's list is emptied
create_payload_consuming(s, h) ==
    IF s.payload # None
    THEN Result(s, h, s.payload, NoError)
    ELSE IF FalsyStr(s.name)
    THEN Result(s, h, None, TypeError)
    ELSE LET fp == get_file_payloads(s, h)
         IN  IF fp.err # NoError
             THEN Result(fp.self, fp.heap, None, fp.err)
             ELSE LET p == CreateEtchPacketPayload(fp.heap, fp.self.is_test, fp.self.is_draft,
                                                   fp.self.name, fp.self.signers,
                                                   fp.self.files, fp.ret[1])
                  IN  Result(fp.self, [p.heap EXCEPT ![fp.self.signers] = <<>>],
                             Some(p.ret), NoError)

\* variant: the fill-payload map is emptied once its payload is built
create_payload_flushing(s, h) ==
    IF s.payload # None
    THEN Result(s, h, s.payload, NoError)
    ELSE IF FalsyStr(s.name)
    THEN Result(s, h, None, TypeError)
    ELSE LET fp == get_file_payloads(s, h)
         IN  IF fp.err # NoError
             THEN Result(fp.self, fp.heap, None, fp.err)
             ELSE LET p == CreateEtchPacketPayload(fp.heap, fp.self.is_test, fp.self.is_draft,
                                                   fp.self.name, fp.self.signers,
                                                   fp.self.files, fp.ret[1])
                  IN  Result(fp.self, [p.heap EXCEPT ![fp.self.file_payloads] = EmptyDict],
                             Some(p.ret), NoError)

\* create_payload
create_payload(s, h) ==
    IF s.payload # None
    THEN Result(s, h, s.payload, NoError)
    ELSE IF FalsyStr(s.name)
    THEN Result(s, h, None, TypeError)
    ELSE LET fp == get_file_payloads(s, h)
         IN  IF fp.err # NoError
             THEN Result(fp.self, fp.heap, None, fp.err)
             ELSE LET p == CreateEtchPacketPayload(fp.heap, fp.self.is_test, fp.self.is_draft,
                                                   fp.self.name, fp.self.signers,
                                                   fp.self.files, fp.ret[1])
                  IN  Result(fp.self, p.heap, Some(p.ret), NoError)

\* cls(**kwargs): a key that is no parameter of __init__ raises TypeError;
\* signers and files are left to their defaults
cls(kwargs) ==
    IF kwargs.extra
    THEN Result(NoBuilder, <<>>, None, TypeError)
    ELSE __init__([name |-> kwargs.name, payload |-> kwargs.payload,
                   signers |-> <<>>, files |-> <<>>,
                   file_payloads |-> kwargs.file_payloads, flags |-> kwargs.flags])

\* outcome of a part of create_from_dict: builder, heap, error and the
\* number of identifiers handed out
Step(s, h, err, u) == [self |-> s, heap |-> h, ret |-> None, err |-> err, uid |-> u]

\* create_from_dict: for signer in payload["signers"]:
\*                       mutation.add_signer(EtchSigner(**signer))
\* (** applied to a value that is no mapping raises TypeError)
RECURSIVE import_signers(_, _, _, _)
import_signers(s, h, entries, u) ==
    IF entries = <<>>
    THEN Step(s, h, NoError, u)
    ELSE LET e == Head(entries)
         IN  IF e.form # "dict"
             THEN Step(s, h, TypeError, u)
             ELSE LET r == add_signer(s, h, [form |-> "EtchSigner",
                                             fields |-> EtchSigner(e.fields)], u + 1)
                  IN  IF r.err # NoError
                      THEN Step(r.self, r.heap, r.err, u)
                      ELSE import_signers(r.self, r.heap, Tail(entries),
                                          IF FalsyStr(e.fields.id) THEN u + 1 ELSE u)

\* create_from_dict: for file in payload["files"]:
\*                       mutation.add_file(DocumentUpload(**file))
RECURSIVE import_files(_, _, _, _)
import_files(s, h, entries, u) ==
    IF entries = <<>>
    THEN Step(s, h, NoError, u)
    ELSE LET e == Head(entries)
         IN  IF e.form # "dict"
             THEN Step(s, h, TypeError, u)
             ELSE LET r == add_file(s, h, DocumentUpload(e.fields))
                  IN  IF r.err # NoError
                      THEN Step(r.self, r.heap, r.err, u)
                      ELSE import_files(r.self, r.heap, Tail(entries), u)

\* variant: the listed signers and files are handed to the constructor
create_from_dict_unvalidated(payload, u) ==
    LET m == cls(payload.kwargs)
        objects(l) == IF l = None THEN <<>> ELSE [i \in DOMAIN l[1] |-> l[1][i].fields]
    IN  IF m.err = TypeError
        THEN Step(NoBuilder, <<>>, ValueError, u)
        ELSE Step(m.self, [m.heap EXCEPT ![m.self.signers] = objects(payload.signers),
                                         ![m.self.files] = objects(payload.files)],
                  NoError, u)

\* create_from_dict: a TypeError of the constructor is raised as ValueError;
\* an error of a later step leaves the method as it is, and no builder is
\* returned
create_from_dict(payload, u) ==
    LET m == cls(payload.kwargs)
    IN  IF m.err = TypeError
        THEN Step(NoBuilder, <<>>, ValueError, u)
        ELSE LET a == IF payload.signers # None
                      THEN import_signers(m.self, m.heap, payload.signers[1], u)
                      ELSE Step(m.self, m.heap, NoError, u)
             IN  IF a.err # NoError
                 THEN Step(NoBuilder, <<>>, a.err, a.uid)
                 ELSE LET b == IF payload.files # None
                               THEN import_files(a.self, a.heap, payload.files[1], a.uid)
                               ELSE a
                      IN  IF b.err # NoError
                          THEN Step(NoBuilder, <<>>, b.err, b.uid)
                          ELSE b

----------------------------------------------------------------------------
(* The caller *)

Call(op, arg, r) == [op |-> op, arg |-> arg, err |-> r.err, ret |-> r.ret,
                     pre |-> [self |-> self, heap |-> heap]]

\* a call that was passed an object it may assign to
CallArg(op, arg, r) == [op |-> op, arg |-> arg, err |-> r.err, ret |-> r.ret,
                        pre |-> [self |-> self, heap |-> heap], post |-> r.arg]

NoCall == [op |-> "none", arg |-> None, err |-> NoError, ret |-> None,
           pre |-> [self |-> NoBuilder, heap |-> <<>>]]

\* signers and attachments added and payloads built after construction
Items == Len(heap[self.signers]) + Len(heap[self.files]) + Len(issued)
            - (Len(ctor.signers) + Len(ctor.files))

\* threads of a caller that shares one builder between them
Threads == {1, 2}
Idle == [pc |-> "idle"]
NoRace == [overlap |-> FALSE, assigned |-> {}]

Init ==
    /\ self = NoBuilder
    /\ heap = <<>>
    /\ last = NoCall
    /\ prevMat = None
    /\ issued = <<>>
    /\ fills = EmptyDict
    /\ uid = 0
    /\ ctor = None
    /\ defaulted = FALSE
    /\ threads = [t \in Threads |-> Idle]
    /\ race = NoRace

Construct ==
    /\ ~self.exists
    /\ uid = 0      \* no builder is made after a failed call that has drawn identifiers
    /\ \E a \in CtorArgs :
         LET r == __init__(a)
         IN  /\ self' = r.self
             /\ heap' = r.heap
             /\ last' = Call("__init__", a, r)
             /\ ctor' = IF r.err = NoError THEN a ELSE None
             /\ defaulted' = (r.err = NoError /\ a.signers = <<>>)
    /\ prevMat' = None
    /\ UNCHANGED <<issued, fills, uid, threads, race>>

CreateFromDict ==
    /\ ~self.exists
    /\ uid = 0      \* no builder is made after a failed call that has drawn identifiers
    /\ \E payload \in ImportPayloads :
         LET r == create_from_dict(payload, uid)
             k == payload.kwargs
         IN  /\ self' = r.self
             /\ heap' = r.heap
             /\ last' = Call("create_from_dict", payload, r)
             /\ uid' = r.uid
             /\ ctor' = IF r.err = NoError
                        THEN [name |-> k.name, payload |-> k.payload,
                              signers |-> <<>>, files |-> <<>>,
                              file_payloads |-> k.file_payloads, flags |-> k.flags]
                        ELSE None
             /\ defaulted' = /\ r.err = NoError
                             /\ payload.signers # None =>
                                    \A i \in DOMAIN payload.signers[1] :
                                       payload.signers[1][i].fields.routing_order = None
    /\ prevMat' = None
    /\ UNCHANGED <<issued, fills, threads, race>>

AddSigner ==
    /\ self.exists
    /\ Items < MaxItems
    /\ \E signer \in SignerArgs :
         LET r == add_signer(self, heap, signer, uid + 1)
             n == Len(r.heap[r.self.signers])
         IN  /\ self' = r.self
             /\ heap' = r.heap
             /\ last' = CallArg("add_signer", signer, r)
             /\ uid' = IF /\ r.err = NoError
                          /\ r.heap[r.self.signers][n].id = create_unique_id("signer", uid + 1)
                       THEN uid + 1 ELSE uid
             /\ defaulted' = (defaulted /\ (signer.form = "other" \/ signer.fields.routing_order = None))
    /\ prevMat' = None
    /\ UNCHANGED <<issued, fills, ctor, threads, race>>

AddFile ==
    /\ self.exists
    /\ Items < MaxItems
    /\ \E file \in Files :
         LET r == add_file(self, heap, file)
         IN  /\ self' = r.self
             /\ heap' = r.heap
             /\ last' = Call("add_file", file, r)
    /\ prevMat' = None
    /\ UNCHANGED <<issued, fills, uid, ctor, defaulted, threads, race>>

AddFilePayloads ==
    /\ self.exists
    /\ \E file_id \in FileIds, fill_payload \in FillData :
         LET r == add_file_payloads(self, heap, file_id, fill_payload)
         IN  /\ self' = r.self
             /\ heap' = r.heap
             /\ last' = Call("add_file_payloads", [file_id |-> file_id, fill_payload |-> fill_payload], r)
             /\ fills' = IF r.err = NoError
                         THEN [k \in DOMAIN fills \cup {file_id} |->
                                  IF k = file_id THEN fill_payload ELSE fills[k]]
                         ELSE fills
    /\ prevMat' = None
    /\ UNCHANGED <<issued, uid, ctor, defaulted, threads, race>>

GetFilePayloads ==
    /\ self.exists
    /\ LET r == get_file_payloads(self, heap)
       IN  /\ self' = r.self
           /\ heap' = r.heap
           /\ last' = Call("get_file_payloads", None, r)
    /\ prevMat' = None
    /\ UNCHANGED <<issued, fills, uid, ctor, defaulted, threads, race>>

CreatePayload ==
    /\ self.exists
    /\ LET r == create_payload(self, heap)
       IN  /\ (r.err = NoError /\ r.ret[1].kind = "built") => Items < MaxItems
           /\ self' = r.self
           /\ heap' = r.heap
           /\ last' = Call("create_payload", None, r)
           /\ issued' = IF r.err = NoError /\ r.ret[1].kind = "built"
                        THEN Append(issued, [p |-> r.ret[1], at |-> View(r.heap, r.ret[1])])
                        ELSE issued
    /\ prevMat' = IF last.op = "create_payload"
                  THEN Some([ret |-> last.ret, err |-> last.err])
                  ELSE None
    /\ UNCHANGED <<fills, uid, ctor, defaulted, threads, race>>

Next == Construct \/ CreateFromDict \/ AddSigner \/ AddFile \/ AddFilePayloads
           \/ GetFilePayloads \/ CreatePayload

Spec == Init /\ [][Next]_vars

\* The attributes of the builder are public: a caller can assign self.name
\* after construction, which is the case the name check of create_payload
\* is there for.
SetName ==
    /\ self.exists
    /\ \E name \in {None} \ {self.name} :
         /\ self' = [self EXCEPT !.name = name]
         /\ last' = Call("set_name", name, Result(self, heap, None, NoError))
    /\ prevMat' = None
    /\ UNCHANGED <<heap, issued, fills, uid, ctor, defaulted, threads, race>>

NextAttr == Next \/ SetName

SpecAttr == Init /\ [][NextAttr]_vars

\* Two threads call add_signer on one builder.  Nothing in add_signer keeps
\* a thread from being suspended between the statements that read
\* self.signers for the next routing order and the statements that assign
\* the number and append, so a call is two steps.

\* add_signer up to `num = max(all_signers) + 1`: the checks, the id, and
\* the number read from the signer list (None for a signer that has one)
add_signer_read(s, h, signer, suffix) ==
    IF signer.form = "other"
    THEN [err |-> ValueError, data |-> None, num |-> None]
    ELSE
    LET data == IF signer.form = "dict" THEN EtchSigner(signer.fields) ELSE signer.fields
    IN  IF ~signer_type_ok(data)
        THEN [err |-> ValueError, data |-> None, num |-> None]
        ELSE
        LET id == IF FalsyStr(data.id) THEN create_unique_id("signer", suffix) ELSE data.id
        IN  [err |-> NoError,
             data |-> Some([data EXCEPT !.id = id]),
             num |-> IF FalsyInt(data.routing_order)
                     THEN Some(next_routing_order(h[s.signers]))
                     ELSE None]

\* add_signer from `data.routing_order = num` on: the number is assigned and
\* the signer appended to the list as it is now
add_signer_write(s, h, data, num) ==
    LET d2 == IF num # None THEN [data EXCEPT !.routing_order = num] ELSE data
    IN  ResultArg(s, [h EXCEPT ![s.signers] = Append(@, d2)], None, NoError, d2)

InFlight == Cardinality({t \in Threads : threads[t] # Idle})

BeginAddSigner(t) ==
    /\ self.exists
    /\ threads[t] = Idle
    /\ Items + InFlight < MaxItems
    /\ \E signer \in SignerArgs :
         LET r == add_signer_read(self, heap, signer, uid + 1)
         IN  /\ threads' = [threads EXCEPT ![t] =
                              IF r.err # NoError THEN Idle
                              ELSE [pc |-> "append", signer |-> signer,
                                    data |-> r.data[1], num |-> r.num]]
             /\ last' = IF r.err # NoError
                        THEN CallArg("add_signer", signer,
                                     ResultArg(self, heap, None, r.err, signer.fields))
                        ELSE last
             /\ uid' = IF r.err = NoError /\ r.data[1].id = create_unique_id("signer", uid + 1)
                       THEN uid + 1 ELSE uid
             /\ race' = [race EXCEPT !.overlap =
                            @ \/ (r.err = NoError /\ \E u \in Threads \ {t} : threads[u] # Idle)]
             /\ defaulted' = (defaulted /\ (signer.form = "other" \/ signer.fields.routing_order = None))
    /\ UNCHANGED <<self, heap, prevMat, issued, fills, ctor>>

FinishAddSigner(t) ==
    /\ threads[t] # Idle
    /\ LET f == threads[t]
           r == add_signer_write(self, heap, f.data, f.num)
       IN  /\ self' = r.self
           /\ heap' = r.heap
           /\ last' = CallArg("add_signer", f.signer, r)
           /\ race' = [race EXCEPT !.assigned =
                          IF f.num # None THEN @ \cup {Len(r.heap[r.self.signers])} ELSE @]
    /\ threads' = [threads EXCEPT ![t] = Idle]
    /\ prevMat' = None
    /\ UNCHANGED <<issued, fills, uid, ctor, defaulted>>

NextConc ==
    \/ Construct
    \/ \E t \in Threads : BeginAddSigner(t)
    \/ \E t \in Threads : FinishAddSigner(t)

SpecConc == Init /\ [][NextConc]_vars

----------------------------------------------------------------------------
(* Properties *)

\* the builder's collections, and those before the last call
Signers == heap[self.signers]
Attachments == heap[self.files]
FilePayloads == heap[self.file_payloads]
PreSigners == last.pre.heap[last.pre.self.signers]
PreAttachments == last.pre.heap[last.pre.self.files]
PreFilePayloads == last.pre.heap[last.pre.self.file_payloads]

\* C1: on a builder constructed without signers, after add_signer calls that
\* all came without routing order, the k-th signer of the list has routing
\* order k.
C1_DefaultRoutingOrders ==
    (self.exists /\ defaulted) =>
        \A k \in DOMAIN Signers : Signers[k].routing_order = Some(k)

C1_Witness ==
    /\ self.exists /\ defaulted
    /\ Len(Signers) = MaxItems
    /\ last.op = "add_signer" /\ last.err = NoError

\* C2: a signer passed to add_signer with an explicit routing order, 0
\* included, is stored with that routing order.
C2_ExplicitRoutingOrderKept ==
    (/\ last.op = "add_signer" /\ last.err = NoError
     /\ last.arg.fields.routing_order # None) =>
        Signers[Len(Signers)].routing_order = last.arg.fields.routing_order

\* C3: add_signer with a signer_type other than 'embedded' and 'email'
\* raises ValueError and leaves the signer list as it was.
C3_BadSignerTypeRejected ==
    (/\ last.op = "add_signer" /\ last.arg.form # "other"
     /\ last.arg.fields.signer_type \notin {"embedded", "email"}) =>
        /\ last.err = ValueError
        /\ Signers = PreSigners

C3_Witness ==
    /\ last.op = "add_signer" /\ last.arg.form # "other"
    /\ last.arg.fields.signer_type = "sms"
    /\ last.err = ValueError
    /\ Len(Signers) > 0

\* C4 as stated: add_file_payloads with an id that is not the id of an
\* attachment raises ValueError and the fill-payload map has no entry for
\* that id afterwards.
C4_NoEntryAfterRejection ==
    (/\ last.op = "add_file_payloads"
     /\ last.arg.file_id \notin existing_files(last.pre.self, last.pre.heap)) =>
        /\ last.err = ValueError
        /\ last.arg.file_id \notin DOMAIN FilePayloads

\* C4 amended: add_file_payloads with an id that is not the id of an
\* attachment raises ValueError at the call, and the fill-payload map is
\* the one before the call.
C4_RejectedAtCall ==
    (/\ last.op = "add_file_payloads"
     /\ last.arg.file_id \notin existing_files(last.pre.self, last.pre.heap)) =>
        /\ last.err = ValueError
        /\ FilePayloads = PreFilePayloads

C4_Witness ==
    /\ last.op = "add_file_payloads"
    /\ last.arg.file_id \notin existing_files(last.pre.self, last.pre.heap)
    /\ last.err = ValueError
    /\ Attachments # <<>>
    /\ issued = <<>>

\* the data block of the payload the last call returned carries the data
\* of the most recent add_file_payloads of every id, and every entry of the
\* builder's map
DataCarriesFills ==
    LET data == View(heap, last.ret[1]).data
    IN  /\ \A id \in DOMAIN fills : id \in DOMAIN data /\ data[id] = fills[id]
        /\ \A id \in DOMAIN FilePayloads : id \in DOMAIN data /\ data[id] = FilePayloads[id]
        /\ \A id \in DOMAIN ctor.file_payloads \ DOMAIN fills :
               id \in DOMAIN data /\ data[id] = ctor.file_payloads[id]

\* C5 as stated: once add_file_payloads has succeeded, every create_payload
\* on a builder without supplied payload returns a payload whose data block
\* has the most recent data under each id.
C5_AlwaysMaterializes ==
    (/\ last.op = "create_payload" /\ self.payload = None
     /\ fills # EmptyDict) =>
        /\ last.err = NoError
        /\ DataCarriesFills

\* C5 amended: once add_file_payloads has succeeded, a create_payload on a
\* builder without supplied payload raises ValueError when a key of the
\* fill-payload map is not the id of an attachment, and otherwise returns a
\* payload whose data block has the most recent data under each id and the
\* entries of all other ids.
C5_FillPayloadMaterialized ==
    (/\ last.op = "create_payload" /\ self.payload = None
     /\ fills # EmptyDict) =>
        IF \E key \in DOMAIN FilePayloads : key \notin existing_files(self, heap)
        THEN last.err = ValueError /\ last.ret = None
        ELSE last.err = NoError /\ DataCarriesFills

\* an overwritten entry and an entry of another id are in the payload
C5_Witness ==
    /\ last.op = "create_payload" /\ self.payload = None
    /\ last.err = NoError
    /\ DOMAIN fills = {"a"} /\ fills["a"] = "d2"
    /\ DOMAIN FilePayloads = {"a", "b"}
    /\ View(heap, last.ret[1]).data = [k \in {"a", "b"} |-> IF k = "a" THEN "d2" ELSE "d1"]

\* some key of the fill-payload map is not the id of an attachment
StaleKey(s, h) == \E key \in DOMAIN h[s.file_payloads] : key \notin existing_files(s, h)

\* C6: create_payload on a builder without name and without supplied
\* payload raises TypeError and returns nothing, also when a key of the
\* fill-payload map has no attachment.
C6_NoNameFails ==
    (/\ last.op = "create_payload"
     /\ FalsyStr(last.pre.self.name) /\ last.pre.self.payload = None) =>
        /\ last.err = TypeError
        /\ last.ret = None

C6_Witness ==
    /\ last.op = "create_payload"
    /\ FalsyStr(last.pre.self.name) /\ last.pre.self.payload = None
    /\ StaleKey(last.pre.self, last.pre.heap)
    /\ last.err = TypeError

\* C7: the constructor raises TypeError exactly when payload is absent and
\* name is absent (None or empty); a builder exists afterwards exactly when
\* it did not raise.
C7_ConstructRequiresNameOrPayload ==
    last.op = "__init__" =>
        /\ (last.err = TypeError) <=> (last.arg.payload = None /\ FalsyStr(last.arg.name))
        /\ last.err \in {NoError, TypeError}
        /\ (last.err = TypeError) => ~self.exists /\ ctor = None
        /\ (last.err = NoError) =>
               self.exists /\ self.name = last.arg.name /\ self.payload = last.arg.payload

C7_Witness ==
    /\ last.op = "__init__"
    /\ last.arg.payload = None /\ last.arg.name = None
    /\ last.err = TypeError
    /\ ~self.exists

\* C8: on a builder constructed without name and with a payload, every
\* create_payload returns the payload of the construction without raising,
\* whatever was added to the builder since.
C8_SuppliedPayloadReturned ==
    (/\ last.op = "create_payload"
     /\ ctor.name = None /\ ctor.payload # None) =>
        /\ last.err = NoError
        /\ last.ret = ctor.payload

C8_Witness ==
    /\ last.op = "create_payload"
    /\ ctor.name = None /\ ctor.payload # None
    /\ Signers # <<>> /\ Attachments # <<>>
    /\ StaleKey(self, heap)
    /\ last.ret = ctor.payload

\* C9: a create_payload that directly follows a create_payload has the
\* same outcome, and the payloads returned have equal contents.
C9_RepeatedMaterializeEqual ==
    (last.op = "create_payload" /\ prevMat # None) =>
        /\ last.err = prevMat[1].err
        /\ last.err = NoError =>
               View(heap, last.ret[1]) = View(heap, prevMat[1].ret[1])

C9_Witness ==
    /\ last.op = "create_payload" /\ prevMat # None
    /\ last.err = NoError /\ last.ret[1].kind = "built"
    /\ last.ret[1] # prevMat[1].ret[1]
    /\ Signers # <<>>

\* C10: the signers, attachments and fill data of a payload that
\* create_payload has built stay what they were when it was returned.
C10_PayloadIsSnapshot ==
    \A i \in DOMAIN issued : View(heap, issued[i].p) = issued[i].at

C10_Witness ==
    /\ issued # <<>>
    /\ issued[1].at.signers # Signers \/ issued[1].at.files # Attachments
    /\ issued[1].at.data # FilePayloads

\* C11: a failed add_signer, add_file or add_file_payloads leaves the
\* builder, its signer list, its attachment list and its fill-payload map as
\* they were, and the signer passed to a failed add_signer has the id and
\* the routing order it came with.
C11_FailedCallLeavesState ==
    (last.op \in {"add_signer", "add_file", "add_file_payloads"} /\ last.err # NoError) =>
        /\ self = last.pre.self
        /\ Signers = PreSigners
        /\ Attachments = PreAttachments
        /\ FilePayloads = PreFilePayloads
        /\ last.op = "add_signer" => last.post = last.arg.fields

C11_Witness ==
    /\ last.op = "add_signer" /\ last.err = ValueError
    /\ last.arg.form = "EtchSigner"
    /\ last.arg.fields.id = None /\ last.arg.fields.routing_order = None
    /\ Signers # <<>> /\ Attachments # <<>> /\ FilePayloads # EmptyDict

\* C12: a create_from_dict that fails raises ValueError, whichever step of
\* it fails.
C12_ImportRaisesValueError ==
    (last.op = "create_from_dict" /\ last.err # NoError) => last.err = ValueError

\* the fill-payload map the last call returned: the map get_file_payloads
\* refers to, or the data block of the payload of create_payload
ReturnedFilePayloads ==
    IF last.op = "get_file_payloads" THEN heap[last.ret[1]]
    ELSE View(heap, last.ret[1]).data

\* C13: get_file_payloads, and create_payload on a builder without supplied
\* payload, raise ValueError when a key of the fill-payload map is not the
\* id of an attachment, and otherwise return the fill-payload map as it is.
C13_ResolveFillPayloads ==
    (\/ last.op = "get_file_payloads"
     \/ last.op = "create_payload" /\ last.pre.self.payload = None) =>
        IF StaleKey(last.pre.self, last.pre.heap)
        THEN last.err = ValueError /\ last.ret = None
        ELSE /\ last.err = NoError
             /\ ReturnedFilePayloads = PreFilePayloads
             /\ FilePayloads = PreFilePayloads
             /\ last.op = "get_file_payloads" => last.ret = Some(self.file_payloads)

\* the map came with the constructor and no attachment was added for its key
C13_Witness ==
    /\ last.op = "create_payload" /\ last.pre.self.payload = None
    /\ ctor.file_payloads # EmptyDict
    /\ FilePayloads = ctor.file_payloads
    /\ StaleKey(self, heap)
    /\ last.err = ValueError

\* the content type add_file is to leave on an attachment: the one already
\* set, else the type of the extension of the name, unset when there is none
InferredContentType(file) ==
    IF file.content_type # None THEN file.content_type
    ELSE IF file.filename = None THEN None
    ELSE guess_type(file.filename[1])

\* C14: add_file on an attachment whose content is a byte stream succeeds and
\* appends the attachment to the end of the list; an unset content type
\* becomes the type of the extension of the name, stays unset when the
\* extension resolves to nothing, and a content type already set is kept.
C14_ContentTypeInferred ==
    (last.op = "add_file" /\ last.arg.kind = "stream") =>
        /\ last.err = NoError
        /\ Attachments = Append(PreAttachments,
               [last.arg EXCEPT !.content_type = InferredContentType(last.arg)])

\* C15: every signer in the signer list of a builder has signer_type
\* "embedded" or "email".
C15_SignerTypesValid ==
    self.exists =>
        \A i \in DOMAIN Signers : Signers[i].signer_type \in {"embedded", "email"}

\* C16: every key of the fill-payload map is the id of an attachment in the
\* attachment list.
C16_KeysAreAttachmentIds ==
    self.exists => \A key \in DOMAIN FilePayloads : key \in existing_files(self, heap)

\* C16 amended: every key of the fill-payload map is the id of an attachment
\* in the list or a key of the map handed to the constructor; the
\* constructor accepts a map with a key that has no attachment, and
\* get_file_payloads and create_payload (without supplied payload) are the
\* calls that fail on such a key.
C16_KeysFromAttachmentsOrConstructor ==
    self.exists =>
        /\ \A key \in DOMAIN FilePayloads :
              key \in existing_files(self, heap) \/ key \in DOMAIN ctor.file_payloads
        /\ StaleKey(self, heap) =>
              /\ last.op = "__init__" => last.err = NoError
              /\ last.op = "get_file_payloads" => last.err = ValueError
              /\ (last.op = "create_payload" /\ self.payload = None) => last.err # NoError
              /\ (last.op = "add_file_payloads" /\ last.arg.file_id \in existing_files(self, heap)) =>
                     last.err = NoError

C16_Witness ==
    /\ self.exists /\ StaleKey(self, heap)
    /\ last.op = "get_file_payloads" /\ last.err = ValueError
    /\ Attachments # <<>>

\* routing orders of the signers in the list before the last call, an unset
\* one counted as 0
PreOrders == {IF s.routing_order = None THEN 0 ELSE s.routing_order[1] : s \in Range(PreSigners)}

Greatest(S) == CHOOSE m \in S : \A x \in S : x <= m

\* C17: add_signer with a signer without routing order gives it the greatest
\* routing order of the signers in the list (unset counted as 0; 0 for an
\* empty list) plus one, which is greater than the routing order of every
\* signer already in the list.
C17_DefaultAfterAllExisting ==
    (last.op = "add_signer" /\ last.err = NoError /\ last.arg.fields.routing_order = None) =>
        LET new == Signers[Len(Signers)].routing_order
        IN  /\ Len(Signers) = Len(PreSigners) + 1
            /\ new = Some((IF PreOrders = {} THEN 0 ELSE Greatest(PreOrders)) + 1)
            /\ \A o \in PreOrders : new[1] > o

\* a signer of the constructor without routing order and a signer with routing
\* order 2 are in the list when a third signer gets its default
C17_Witness ==
    /\ last.op = "add_signer" /\ last.err = NoError /\ last.arg.fields.routing_order = None
    /\ \E s \in Range(PreSigners) : s.routing_order = None
    /\ \E s \in Range(PreSigners) : s.routing_order = Some(2)
    /\ Signers[Len(Signers)].routing_order = Some(3)

\* The calls create_from_dict stands for, made one after the other by a
\* caller: the constructor with the keys other than "signers" and "files",
\* add_signer with each listed signer as it is, add_file with each listed
\* file.  The first call that raises ends the sequence.
RECURSIVE AddSignersInOrder(_, _, _, _)
AddSignersInOrder(s, h, entries, u) ==
    IF entries = <<>>
    THEN Step(s, h, NoError, u)
    ELSE LET r == add_signer(s, h, Head(entries), u + 1)
         IN  IF r.err # NoError
             THEN Step(NoBuilder, <<>>, r.err, u)
             ELSE AddSignersInOrder(r.self, r.heap, Tail(entries),
                                    IF FalsyStr(Head(entries).fields.id) THEN u + 1 ELSE u)

RECURSIVE AddFilesInOrder(_, _, _, _)
AddFilesInOrder(s, h, entries, u) ==
    IF entries = <<>>
    THEN Step(s, h, NoError, u)
    ELSE LET e == Head(entries)
             r == IF e.form = "dict" THEN add_file(s, h, e.fields)
                  ELSE Result(s, h, None, TypeError)
         IN  IF r.err # NoError
             THEN Step(NoBuilder, <<>>, r.err, u)
             ELSE AddFilesInOrder(r.self, r.heap, Tail(entries), u)

ConstructThenAdd(payload) ==
    LET m == cls(payload.kwargs)
        listed(l) == IF l = None THEN <<>> ELSE l[1]
    IN  IF m.err # NoError
        THEN Step(NoBuilder, <<>>, m.err, 0)
        ELSE LET a == AddSignersInOrder(m.self, m.heap, listed(payload.signers), 0)
             IN  IF a.err # NoError
                 THEN a
                 ELSE AddFilesInOrder(a.self, a.heap, listed(payload.files), a.uid)

ListedSigners == IF last.arg.signers = None THEN <<>> ELSE last.arg.signers[1]

\* C19: create_from_dict succeeds exactly when the constructor call with the
\* other keys, add_signer for each listed signer in order and add_file for
\* each listed file in order all succeed, and then returns a builder in the
\* state these calls leave; a listed signer with another signer_type than
\* "embedded" or "email" makes it fail; listed signers that all come
\* without routing order get 1, 2, ... in list order.
C19_ImportIsConstructThenAdd ==
    last.op = "create_from_dict" =>
        LET ref == ConstructThenAdd(last.arg)
        IN  /\ (last.err = NoError) <=> (ref.err = NoError)
            /\ self = ref.self
            /\ heap = ref.heap
            /\ (\E i \in DOMAIN ListedSigners :
                    /\ ListedSigners[i].form = "dict"
                    /\ ListedSigners[i].fields.signer_type \notin {"embedded", "email"}) =>
                   last.err # NoError /\ ~self.exists
            /\ (/\ last.err = NoError
                /\ \A i \in DOMAIN ListedSigners : ListedSigners[i].fields.routing_order = None) =>
                   /\ Len(Signers) = Len(ListedSigners)
                   /\ \A k \in DOMAIN Signers : Signers[k].routing_order = Some(k)

C19_Witness ==
    /\ last.op = "create_from_dict" /\ last.err = NoError
    /\ Len(ListedSigners) = 2
    /\ Signers[1].routing_order = Some(1) /\ Signers[2].routing_order = Some(2)
    /\ Signers[1].id # Signers[2].id
    /\ Len(Attachments) = 1 /\ Attachments[1].content_type = Some("application/pdf")

\* C20: create_payload, raising or not, leaves the attributes of the builder,
\* the signer list, the attachment list and the fill-payload map as they
\* were, and the builder takes add_signer, add_file, add_file_payloads and
\* create_payload calls as before.
C20_CreatePayloadReadOnly ==
    last.op = "create_payload" =>
        /\ self.exists
        /\ self = last.pre.self
        /\ Signers = PreSigners
        /\ Attachments = PreAttachments
        /\ FilePayloads = PreFilePayloads
        /\ LET r == add_signer(self, heap, [form |-> "dict", fields |-> DefaultSigner], uid + 1)
           IN  r.err = NoError /\ Len(r.heap[r.self.signers]) = Len(Signers) + 1
        /\ \A file \in {f \in Files : f.filename # None} :
              LET r == add_file(self, heap, file)
              IN  r.err = NoError /\ Len(r.heap[r.self.files]) = Len(Attachments) + 1
        /\ \A id \in existing_files(self, heap) :
              add_file_payloads(self, heap, id, "d1").err = NoError
        /\ LET r == create_payload(self, heap)
           IN  r.err = last.err /\ (r.err = NoError => View(r.heap, r.ret[1]) = View(heap, last.ret[1]))

C20_Witness ==
    /\ last.op = "create_payload" /\ last.err = NoError
    /\ last.ret[1].kind = "built"
    /\ Signers # <<>> /\ Attachments # <<>> /\ FilePayloads # EmptyDict

\* C18: as long as no add_signer call on the builder has begun while
\* another had not returned, no two signers that were given a default
\* routing order have the same one; and a call that runs alone appends what
\* add_signer appends.
C18_SerializedDefaultsDistinct ==
    ~race.overlap =>
        /\ \A i, j \in race.assigned :
              i # j => Signers[i].routing_order # Signers[j].routing_order
        /\ (last.op = "add_signer" /\ last.err = NoError /\ \A t \in Threads : threads[t] = Idle) =>
              Signers = add_signer(last.pre.self, last.pre.heap, last.arg, uid).heap[self.signers]

\* two calls overlapped: both read the same signer list, and both signers
\* are in the list with the same routing order
C18_Witness ==
    /\ race.overlap
    /\ \A t \in Threads : threads[t] = Idle
    /\ \E i, j \in race.assigned :
          i # j /\ Signers[i].routing_order = Signers[j].routing_order

\* the ids create_unique_id("signer") can have handed out so far
GeneratedIds == {create_unique_id("signer", n) : n \in 1..uid}

\* C21: add_signer stores a signer that comes with an id (a non-empty
\* string) under that id, and gives a signer that comes without one an id
\* that begins with "signer"; an id that a signer in the list has is the id
\* it has after every later add_signer, add_file, add_file_payloads,
\* get_file_payloads and create_payload call.
C21_SignerIdSetOnce ==
    /\ (last.op = "add_signer" /\ last.err = NoError) =>
          LET new == Signers[Len(Signers)]
          IN  IF FalsyStr(last.arg.fields.id)
              THEN new.id \in GeneratedIds
              ELSE new.id = last.arg.fields.id
    /\ last.op \in {"add_signer", "add_file", "add_file_payloads",
                    "get_file_payloads", "create_payload"} =>
          /\ Len(Signers) >= Len(PreSigners)
          /\ \A i \in DOMAIN PreSigners :
                ~FalsyStr(PreSigners[i].id) => Signers[i].id = PreSigners[i].id

\* a signer with a given id is in the list when a signer without id is added
C21_Witness ==
    /\ last.op = "add_signer" /\ last.err = NoError
    /\ last.arg.fields.id = None
    /\ PreSigners # <<>> /\ PreSigners[1].id = Some("s1")
    /\ Signers[1].id = Some("s1")
    /\ Signers[Len(Signers)].id = Some("signer1")

====
